---- MODULE Spec2Model ----
(***************************************************************************)
(* Real-time messaging relay of atu-central-api: the Chat and Message      *)
(* models (models/Chat.js, models/Message.js), the messaging routes        *)
(* (routes/messaging.routes.js) and the socket layer (config/socket.js).   *)
(*                                                                         *)
(* Every handler is an async function: it runs without interruption up to  *)
(* its next await, and other handlers may run while it waits.  A handler   *)
(* is modelled as a process slot whose pc names the await it is suspended  *)
(* at; one step applies the awaited database operation and runs the        *)
(* synchronous code that follows it, up to the next await.                 *)
(***************************************************************************)
EXTENDS Integers, Sequences, FiniteSets, TLC

\* ---------------------------------------------------------------- bounds
MaxUsers == 3
MaxConns == 2
MaxChats == 2
MaxMsgs  == 2
MaxTime  == 1
MaxProcs == 2
MaxWrites == 2
MaxNotes == 2

Users == 1..MaxUsers
Conns == 1..MaxConns
Procs == 1..MaxProcs
\* A well-formed chat id that resolves to no Chat document.
NoSuchChat == MaxChats + 1
\* The id read from an event that came without a payload (data is undefined).
NoData == MaxChats + 2

\* Message content as typed by the client: a string over blank and "a".
Contents == { <<>>, <<" ">>, <<" ", "a">> }
\* Message.type enum, and one value outside it.
TypeEnum == {"text", "image", "file", "audio", "video", "system"}
Types    == {"text", "bogus"}
Emojis   == {"up", "heart"}

VARIABLES
  chats,      \* Chat collection: sequence of documents, _id = index
  messages,   \* Message collection: sequence of documents, _id = index
  activities, \* Activity collection (message_sent records)
  live,       \* live[c]: user the socket c is authenticated as, 0 = not connected
  rooms,      \* rooms[c]: the socket.io rooms socket c has joined
  proc,       \* proc[p]: the handler invocation running in slot p
  emitted,    \* the socket.io events emitted by the last step, in order
  resp,       \* the response returned to the caller by the last step, if any
  now,        \* the clock read by new Date() / Date.now
  notifications, \* Notification collection: sequence of documents, _id = index
  isOnline,   \* isOnline[u]: the isOnline field of the User document of u
  writes      \* the User updates issued by updateUserOnlineStatus and not yet
              \* applied by the database, in the order issued

vars == <<chats, messages, activities, live, rooms, proc, emitted, resp, now,
          notifications, isOnline, writes>>
dbVars  == <<chats, messages, activities>>
netVars == <<live, rooms>>
sideVars == <<notifications, isOnline, writes>>

\* ---------------------------------------------------------------- helpers
RECURSIVE TrimLeft(_)
TrimLeft(s) == IF s # <<>> /\ Head(s) = " " THEN TrimLeft(Tail(s)) ELSE s

RECURSIVE TrimRight(_)
TrimRight(s) ==
  IF s # <<>> /\ s[Len(s)] = " " THEN TrimRight(SubSeq(s, 1, Len(s) - 1)) ELSE s

\* String.prototype.trim, and the schema's trim: true setter
Trim(s) == TrimRight(TrimLeft(s))

Idle == [op |-> "none", pc |-> "idle", user |-> 0, conn |-> 0, chat |-> 0,
         peers |-> <<>>, name |-> "", content |-> <<>>, type |-> "none",
         emoji |-> "none", mid |-> 0, doc |-> <<>>, stamp |-> 0, started |-> 0,
         ref |-> 0]

NoResp == [res |-> "none", call |-> Idle]

Free(p) == proc[p].pc = "idle"

\* no handler is in flight
Quiet == \A p \in Procs : Free(p)

\* a new invocation takes the first free slot (the slots are interchangeable)
FirstFree(p) == Free(p) /\ \A q \in Procs : q < p => ~Free(q)

\* res.status(..).json(..) / the end of a socket handler: the slot is released
Respond(p, res, call) ==
  /\ proc' = [proc EXCEPT ![p] = Idle]
  /\ resp' = [res |-> res, call |-> call]

Suspend(p, call) ==
  /\ proc' = [proc EXCEPT ![p] = call]
  /\ resp' = NoResp

\* ---------------------------------------------------------------- socket rooms
UserRoom(u) == <<"user", u>>
ChatRoom(c) == <<"chat", c>>
ForumRoom_Unprefixed(f) == <<"user", f>>

ForumRoom(f) == <<"forum", f>>

\* the sockets currently in a room
InRoom(r) == { c \in Conns : live[c] # 0 /\ r \in rooms[c] }

NoBody == [kind |-> "none", mid |-> 0, chat |-> 0, content |-> <<>>,
           type |-> "none", sender |-> 0, emoji |-> "none"]

\* io.to(room).emit(ev, body)
IoEmit(ev, r, body) == [ev |-> ev, room |-> r, to |-> InRoom(r), body |-> body]

\* socket.to(room).emit(ev, body): every socket of the room but the emitter
SocketToEmit(c, ev, r, body) ==
  [ev |-> ev, room |-> r, to |-> InRoom(r) \ {c}, body |-> body]

ChatEmit_ToOthers(chatId, body) ==
  [IoEmit("new_message", ChatRoom(chatId), body) EXCEPT
     !.to = { c \in @ : live[c] # body.sender }]

\* io.to(`chat:${chatId}`).emit('new_message', ..) of the send_message handler
ChatEmit(chatId, body) == IoEmit("new_message", ChatRoom(chatId), body)

sendChatMessage(chatId, body) == IoEmit("new_message", ChatRoom(chatId), body)

sendNotification(userId, body) == IoEmit("new_notification", UserRoom(userId), body)

sendForumUpdate(forumId, body) == IoEmit("forum_update", ForumRoom(forumId), body)

\* ---------------------------------------------------------------- Chat model
Participant(u, role) == [user |-> u, role |-> role, lastSeenAt |-> -1]

isParticipant(chat, u) ==
  \E i \in DOMAIN chat.participants : chat.participants[i].user = u

ParticipantSet(chat) == { chat.participants[i].user : i \in DOMAIN chat.participants }

ChatExists(c) == c \in DOMAIN chats

MatchesDirect_Ordered(chat, u1, u2) ==
  /\ chat.type = "direct"
  /\ Len(chat.participants) = 2
  /\ chat.participants[1].user = u1
  /\ chat.participants[2].user = u2

\* the query of createDirectChat's findOne
MatchesDirect(chat, u1, u2) ==
  /\ chat.type = "direct"
  /\ isParticipant(chat, u1)
  /\ isParticipant(chat, u2)
  /\ Len(chat.participants) = 2

\* findOne returns the first matching document, 0 for null
FindDirect(u1, u2) ==
  LET hits == { i \in DOMAIN chats : MatchesDirect(chats[i], u1, u2) }
  IN IF hits = {} THEN 0 ELSE CHOOSE i \in hits : \A j \in hits : i <= j

NewDirectChat(u1, u2) ==
  [type |-> "direct", name |-> "",
   participants |-> <<Participant(u1, "member"), Participant(u2, "member")>>,
   lastMessage |-> 0, lastActivity |-> now, createdBy |-> u1]

RECURSIVE Members(_)
Members(ids) ==
  IF ids = <<>> THEN <<>> ELSE <<Participant(Head(ids), "member")>> \o Members(Tail(ids))

NewGroupChat(creator, name, ids) ==
  [type |-> "group", name |-> name,
   participants |-> <<Participant(creator, "admin")>> \o Members(ids),
   lastMessage |-> 0, lastActivity |-> now, createdBy |-> creator]

\* ---------------------------------------------------------------- POST /chats
PeerLists == {<<>>} \cup { <<u>> : u \in Users }

Creating == { p \in Procs : proc[p].op = "createChat" }

\* the notification loop of POST /chats: one new_chat event per participant
\* other than the caller, in participant order
RECURSIVE NotifyParticipants(_, _, _)
NotifyParticipants(ps, userId, chatId) ==
  IF ps = <<>> THEN <<>>
  ELSE (IF Head(ps).user # userId
          THEN <<sendNotification(Head(ps).user,
                                  [NoBody EXCEPT !.kind = "new_chat", !.chat = chatId])>>
          ELSE <<>>)
       \o NotifyParticipants(Tail(ps), userId, chatId)

\* router.post('/chats'): validation, then createDirectChat's findOne or
\* createGroupChat's save is awaited
CreateChatStart(p, u, type, name, ids) ==
  /\ FirstFree(p)
  /\ Len(chats) + Cardinality(Creating) < MaxChats
  /\ LET call == [Idle EXCEPT !.op = "createChat", !.user = u, !.type = type,
                              !.name = name, !.peers = ids, !.started = now]
     IN IF type = "direct"
          THEN IF Len(ids) # 1
                 THEN Respond(p, "bad_request", call)
                 ELSE Suspend(p, [call EXCEPT !.pc = "find"])
          ELSE IF name = "" \/ Len(ids) = 0
                 THEN Respond(p, "bad_request", call)
                 ELSE Suspend(p, [call EXCEPT !.pc = "save",
                                              !.doc = <<NewGroupChat(u, name, ids)>>])
  /\ emitted' = <<>>
  /\ UNCHANGED <<dbVars, netVars, now, sideVars>>

\* createDirectChat after its findOne: return the existing chat, or build a
\* new one and await its save
createDirectChat(p) ==
  /\ proc[p].op = "createChat" /\ proc[p].pc = "find"
  /\ LET u1 == proc[p].user
         u2 == proc[p].peers[1]
         existingChat == FindDirect(u1, u2)
     IN IF existingChat # 0
          THEN Suspend(p, [proc[p] EXCEPT !.pc = "populate", !.chat = existingChat])
          ELSE Suspend(p, [proc[p] EXCEPT !.pc = "save",
                                          !.doc = <<NewDirectChat(u1, u2)>>])
  /\ emitted' = <<>>
  /\ UNCHANGED <<dbVars, netVars, now, sideVars>>

\* chat.save() of createDirectChat / createGroupChat
CreateChatSave(p) ==
  /\ proc[p].op = "createChat" /\ proc[p].pc = "save"
  /\ chats' = Append(chats, proc[p].doc[1])
  /\ Suspend(p, [proc[p] EXCEPT !.pc = "populate", !.chat = Len(chats) + 1])
  /\ emitted' = <<>>
  /\ UNCHANGED <<messages, activities, netVars, now, sideVars>>

\* chat.populate(..) inside the model's static; the route then awaits its own
CreateChatPopulate(p) ==
  /\ proc[p].op = "createChat" /\ proc[p].pc = "populate"
  /\ Suspend(p, [proc[p] EXCEPT !.pc = "respond"])
  /\ emitted' = <<>>
  /\ UNCHANGED <<dbVars, netVars, now, sideVars>>

\* the route after its populate: notify the other participants, 201
CreateChatRespond(p) ==
  /\ proc[p].op = "createChat" /\ proc[p].pc = "respond"
  /\ emitted' = NotifyParticipants(chats[proc[p].chat].participants,
                                   proc[p].user, proc[p].chat)
  /\ Respond(p, "ok", proc[p])
  /\ UNCHANGED <<dbVars, netVars, now, sideVars>>

\* ---------------------------------------------------------------- sockets
\* updateUserOnlineStatus up to its await: the User update is issued
updateUserOnlineStatus(userId, online) ==
  Append(writes, [user |-> userId, isOnline |-> online])

\* an exception leaves a listener uncaught: process.on('uncaughtException')
\* logs it and calls process.exit(1).  Every socket is closed and the handlers
\* in flight are gone; what the database holds, and the updates already sent
\* to it, remain.
Exit ==
  /\ live' = [c \in Conns |-> 0]
  /\ rooms' = [c \in Conns |-> {}]
  /\ proc' = [p \in Procs |-> Idle]
  /\ emitted' = <<>>
  /\ resp' = [res |-> "exit", call |-> Idle]

\* io.use + io.on('connection'): the token resolves to an active user; the
\* socket joins its personal room and the user is set online
Connect(c, u) ==
  /\ live[c] = 0
  /\ Len(writes) < MaxWrites
  /\ live' = [live EXCEPT ![c] = u]
  /\ rooms' = [rooms EXCEPT ![c] = {UserRoom(u)}]
  /\ writes' = updateUserOnlineStatus(u, TRUE)
  /\ emitted' = <<>>
  /\ resp' = NoResp
  /\ UNCHANGED <<dbVars, proc, now, notifications, isOnline>>

\* socket.on('join_chat'): no lookup of the chat, no participant check; the
\* payload is destructured outside any try
JoinChat(c, chatId) ==
  /\ live[c] # 0
  /\ IF chatId = NoData
       THEN Exit
       ELSE /\ rooms' = [rooms EXCEPT ![c] = @ \cup {ChatRoom(chatId)}]
            /\ emitted' = <<SocketToEmit(c, "user_joined_chat", ChatRoom(chatId),
                               [NoBody EXCEPT !.sender = live[c], !.chat = chatId])>>
            /\ resp' = NoResp
            /\ UNCHANGED <<live, proc>>
  /\ UNCHANGED <<dbVars, now, sideVars>>

\* socket.on('leave_chat')
LeaveChat(c, chatId) ==
  /\ live[c] # 0
  /\ IF chatId = NoData
       THEN Exit
       ELSE /\ rooms' = [rooms EXCEPT ![c] = @ \ {ChatRoom(chatId)}]
            /\ emitted' = <<SocketToEmit(c, "user_left_chat", ChatRoom(chatId),
                               [NoBody EXCEPT !.sender = live[c], !.chat = chatId])>>
            /\ resp' = NoResp
            /\ UNCHANGED <<live, proc>>
  /\ UNCHANGED <<dbVars, now, sideVars>>

\* socket.on('join_forum'): the payload is the forum id itself
JoinForum(c, forumId) ==
  /\ live[c] # 0
  /\ rooms' = [rooms EXCEPT ![c] = @ \cup {ForumRoom(forumId)}]
  /\ emitted' = <<>>
  /\ resp' = NoResp
  /\ UNCHANGED <<dbVars, live, proc, now, sideVars>>

\* socket.on('leave_forum')
LeaveForum(c, forumId) ==
  /\ live[c] # 0
  /\ rooms' = [rooms EXCEPT ![c] = @ \ {ForumRoom(forumId)}]
  /\ emitted' = <<>>
  /\ resp' = NoResp
  /\ UNCHANGED <<dbVars, live, proc, now, sideVars>>

\* socket.on('typing'): relayed to the other sockets of the chat room; the
\* payload is destructured outside any try
Typing(c, chatId, isTyping) ==
  /\ live[c] # 0
  /\ IF chatId = NoData
       THEN Exit
       ELSE /\ emitted' = <<SocketToEmit(c, "user_typing", ChatRoom(chatId),
                               [NoBody EXCEPT !.sender = live[c], !.chat = chatId,
                                              !.kind = IF isTyping THEN "typing" ELSE "idle"])>>
            /\ resp' = NoResp
            /\ UNCHANGED <<live, rooms, proc>>
  /\ UNCHANGED <<dbVars, now, sideVars>>

\* a call of socketService.sendNotification, sendChatMessage or
\* sendForumUpdate from another part of the application
ServiceEmit(event) ==
  /\ emitted' = <<event>>
  /\ resp' = NoResp
  /\ UNCHANGED <<dbVars, netVars, proc, now, sideVars>>

Disconnect_KeepRooms(c) ==
  /\ live[c] # 0
  /\ Len(writes) < MaxWrites
  /\ live' = [live EXCEPT ![c] = 0]
  /\ writes' = updateUserOnlineStatus(live[c], FALSE)
  /\ emitted' = <<>>
  /\ resp' = NoResp
  /\ UNCHANGED <<dbVars, rooms, proc, now, notifications, isOnline>>

\* socket.on('disconnect'): socket.io has already taken the socket out of
\* its rooms when the event fires, so the loop over socket.rooms is empty
Disconnect(c) ==
  /\ live[c] # 0
  /\ Len(writes) < MaxWrites
  /\ live' = [live EXCEPT ![c] = 0]
  /\ rooms' = [rooms EXCEPT ![c] = {}]
  /\ writes' = updateUserOnlineStatus(live[c], FALSE)
  /\ emitted' = <<>>
  /\ resp' = NoResp
  /\ UNCHANGED <<dbVars, proc, now, notifications, isOnline>>

\* the database applies one of the pending User updates (they are issued
\* without await, each on its own, and may be applied in any order).  The
\* database is taken to apply every one of them: a failed update would only
\* be logged.
UserUpdate(i) ==
  /\ i \in DOMAIN writes
  /\ isOnline' = [isOnline EXCEPT ![writes[i].user] = writes[i].isOnline]
  /\ writes' = SubSeq(writes, 1, i - 1) \o SubSeq(writes, i + 1, Len(writes))
  /\ emitted' = <<>>
  /\ resp' = NoResp
  /\ UNCHANGED <<dbVars, netVars, proc, now, notifications>>

\* ---------------------------------------------------------------- Message model
NewMessage(chatId, sender, content, type) ==
  [chatId |-> chatId, sender |-> sender, content |-> Trim(content), type |-> type,
   reactions |-> <<>>, readBy |-> <<>>, isDeleted |-> FALSE, deletedAt |-> -1]

\* schema validation run by message.save(): content required (after the
\* trim setter), type within the enum
ValidMessage(m) == m.content # <<>> /\ m.type \in TypeEnum

Sending == { p \in Procs : proc[p].op \in {"httpSend", "socketSend"} }

\* the message_sent Activity of a direct chat: the first participant that is
\* not the sender, 0 when there is none
OtherParticipant(chat, userId) ==
  LET others == { i \in DOMAIN chat.participants : chat.participants[i].user # userId }
  IN IF others = {} THEN 0
     ELSE chat.participants[CHOOSE i \in others : \A j \in others : i <= j].user

\* the new_message payload of the HTTP route
HttpPayload(call, message) ==
  [NoBody EXCEPT !.kind = "message", !.mid = call.mid, !.chat = call.chat,
                 !.content = message.content, !.type = call.type,
                 !.sender = call.user]

\* the new_message payload of the socket handler: the content as received
SocketPayload(call) ==
  [NoBody EXCEPT !.kind = "message", !.mid = call.mid, !.chat = call.chat,
                 !.content = call.content, !.type = call.type,
                 !.sender = call.user]

\* ---------------------------------------------------------------- POST /chats/:chatId/messages
\* !content || !content.trim()
ContentMissing(content) == content = <<>> \/ Trim(content) = <<>>

\* the route's lookup of the chat and its participant check
HttpAccess(u, chatId) ==
  IF ~ChatExists(chatId) THEN "not_found"
  ELSE IF ~isParticipant(chats[chatId], u) THEN "forbidden"
  ELSE "ok"

TouchChat_Every(chatId, mid, stamp) ==
  [c \in DOMAIN chats |-> [chats[c] EXCEPT !.lastMessage = mid, !.lastActivity = stamp]]

TouchChat_NoStamp(chatId, mid, stamp) ==
  IF ChatExists(chatId) THEN [chats EXCEPT ![chatId].lastMessage = mid] ELSE chats

\* the write of a send to its chat: lastMessage and lastActivity; a chat id
\* that resolves to nothing updates nothing
TouchChat(chatId, mid, stamp) ==
  IF ChatExists(chatId)
    THEN [chats EXCEPT ![chatId].lastMessage = mid, ![chatId].lastActivity = stamp]
    ELSE chats

\* the route up to its first await: content is required and not blank
HttpSendStart(p, u, chatId, content, type) ==
  /\ FirstFree(p)
  /\ Len(messages) + Cardinality(Sending) < MaxMsgs
  /\ LET call == [Idle EXCEPT !.op = "httpSend", !.user = u, !.chat = chatId,
                              !.content = content, !.type = type, !.started = now]
     IN IF ContentMissing(content)
          THEN Respond(p, "bad_request", call)
          ELSE Suspend(p, [call EXCEPT !.pc = "find"])
  /\ emitted' = <<>>
  /\ UNCHANGED <<dbVars, netVars, now, sideVars>>

\* after Chat.findById: 404, 403, or build the message and await its save
HttpSendFind(p) ==
  /\ proc[p].op = "httpSend" /\ proc[p].pc = "find"
  /\ LET access == HttpAccess(proc[p].user, proc[p].chat)
     IN IF access # "ok"
          THEN Respond(p, access, proc[p])
          ELSE Suspend(p, [proc[p] EXCEPT !.pc = "save"])
  /\ emitted' = <<>>
  /\ UNCHANGED <<dbVars, netVars, now, sideVars>>

\* message.save(): a validation or database error goes to the catch (500)
HttpSendSave(p, dbOk) ==
  /\ proc[p].op = "httpSend" /\ proc[p].pc = "save"
  /\ LET message == NewMessage(proc[p].chat, proc[p].user, proc[p].content, proc[p].type)
     IN IF dbOk /\ ValidMessage(message)
          THEN /\ messages' = Append(messages, message)
               /\ Suspend(p, [proc[p] EXCEPT !.pc = "populate", !.mid = Len(messages) + 1])
          ELSE /\ messages' = messages
               /\ Respond(p, "error", proc[p])
  /\ emitted' = <<>>
  /\ UNCHANGED <<chats, activities, netVars, now, sideVars>>

\* after message.populate: chat.lastMessage / chat.lastActivity = new Date()
\* are set on the loaded document and chat.save() is awaited
HttpSendPopulate(p) ==
  /\ proc[p].op = "httpSend" /\ proc[p].pc = "populate"
  /\ Suspend(p, [proc[p] EXCEPT !.pc = "chatSave", !.stamp = now])
  /\ emitted' = <<>>
  /\ UNCHANGED <<dbVars, netVars, now, sideVars>>

\* the broadcast and the 201 that end the route
HttpSendFinish(p) ==
  /\ emitted' = <<sendChatMessage(proc[p].chat, HttpPayload(proc[p], messages[proc[p].mid]))>>
  /\ Respond(p, "ok", proc[p])

\* chat.save() lands: only the modified paths are written.  A direct chat
\* with another participant then awaits Activity.createActivity
HttpSendChatSave(p) ==
  /\ proc[p].op = "httpSend" /\ proc[p].pc = "chatSave"
  /\ chats' = TouchChat(proc[p].chat, proc[p].mid, proc[p].stamp)
  /\ IF chats[proc[p].chat].type = "direct"
        /\ OtherParticipant(chats[proc[p].chat], proc[p].user) # 0
       THEN /\ Suspend(p, [proc[p] EXCEPT !.pc = "activity"])
            /\ emitted' = <<>>
       ELSE HttpSendFinish(p)
  /\ UNCHANGED <<messages, activities, netVars, now, sideVars>>

\* Activity.createActivity: a failure is logged and swallowed
HttpSendActivity(p, dbOk) ==
  /\ proc[p].op = "httpSend" /\ proc[p].pc = "activity"
  /\ activities' =
       IF dbOk
         THEN Append(activities,
                     [user |-> proc[p].user, chatId |-> proc[p].chat,
                      targetUser |-> OtherParticipant(chats[proc[p].chat], proc[p].user)])
         ELSE activities
  /\ HttpSendFinish(p)
  /\ UNCHANGED <<chats, messages, netVars, now, sideVars>>

\* ---------------------------------------------------------------- socket.on('send_message')
\* the handler up to message.save(): no lookup of the chat
SocketSendStart(p, c, chatId, content, type) ==
  /\ FirstFree(p)
  /\ live[c] # 0
  /\ Len(messages) + Cardinality(Sending) < MaxMsgs
  /\ Suspend(p, [Idle EXCEPT !.op = "socketSend", !.pc = "save", !.conn = c,
                             !.user = live[c], !.chat = chatId, !.content = content,
                             !.type = type, !.started = now])
  /\ emitted' = <<>>
  /\ UNCHANGED <<dbVars, netVars, now, sideVars>>

\* socket.emit('message_error') reaches the socket only while it is connected
MessageError_ToRoom(p) == IoEmit("message_error", ChatRoom(proc[p].chat), NoBody)

MessageError(p) ==
  [ev |-> "message_error", room |-> <<"socket", proc[p].conn>>,
   to |-> { c \in {proc[p].conn} : live[c] # 0 }, body |-> NoBody]

\* message.save()
SocketSendSave(p, dbOk) ==
  /\ proc[p].op = "socketSend" /\ proc[p].pc = "save"
  /\ LET message == NewMessage(proc[p].chat, proc[p].user, proc[p].content, proc[p].type)
     IN IF dbOk /\ ValidMessage(message)
          THEN /\ messages' = Append(messages, message)
               /\ Suspend(p, [proc[p] EXCEPT !.pc = "populate", !.mid = Len(messages) + 1])
               /\ emitted' = <<>>
          ELSE /\ messages' = messages
               /\ emitted' = <<MessageError(p)>>
               /\ Respond(p, "error", proc[p])
  /\ UNCHANGED <<chats, activities, netVars, now, sideVars>>

\* after message.populate: Chat.findByIdAndUpdate is issued with new Date()
SocketSendPopulate(p) ==
  /\ proc[p].op = "socketSend" /\ proc[p].pc = "populate"
  /\ Suspend(p, [proc[p] EXCEPT !.pc = "chatUpdate", !.stamp = now])
  /\ emitted' = <<>>
  /\ UNCHANGED <<dbVars, netVars, now, sideVars>>

SocketSendChatUpdate_IfConnected(p) ==
  /\ proc[p].op = "socketSend" /\ proc[p].pc = "chatUpdate"
  /\ chats' = TouchChat(proc[p].chat, proc[p].mid, proc[p].stamp)
  /\ emitted' = IF live[proc[p].conn] # 0
                  THEN <<ChatEmit(proc[p].chat, SocketPayload(proc[p]))>>
                  ELSE <<>>
  /\ Respond(p, "ok", proc[p])
  /\ UNCHANGED <<messages, activities, netVars, now, sideVars>>

\* Chat.findByIdAndUpdate lands (a missing chat is no error), then the
\* broadcast to the chat room
SocketSendChatUpdate(p) ==
  /\ proc[p].op = "socketSend" /\ proc[p].pc = "chatUpdate"
  /\ chats' = TouchChat(proc[p].chat, proc[p].mid, proc[p].stamp)
  /\ emitted' = <<ChatEmit(proc[p].chat, SocketPayload(proc[p]))>>
  /\ Respond(p, "ok", proc[p])
  /\ UNCHANGED <<messages, activities, netVars, now, sideVars>>

\* ---------------------------------------------------------------- reactions
\* A well-formed message id that resolves to no Message document.
NoSuchMessage == MaxMsgs + 1

\* the cap on the reactions of one message in the model
MaxReactions == 3

\* the filter of addReaction / removeReaction: every entry but (userId, emoji)
WithoutReaction(reactions, userId, emoji) ==
  LET Keep(r) == ~(r.user = userId /\ r.emoji = emoji)
  IN SelectSeq(reactions, Keep)

addReaction_NoFilter(reactions, userId, emoji) ==
  Append(reactions, [user |-> userId, emoji |-> emoji])

\* messageSchema.methods.addReaction, on the loaded document
addReaction(reactions, userId, emoji) ==
  Append(WithoutReaction(reactions, userId, emoji), [user |-> userId, emoji |-> emoji])

\* messageSchema.methods.removeReaction, on the loaded document
removeReaction(reactions, userId, emoji) == WithoutReaction(reactions, userId, emoji)

\* router.post('/messages/:messageId/reactions') up to Message.findById;
\* emoji "none" stands for a request without one
ReactStart(p, u, messageId, emoji) ==
  /\ FirstFree(p)
  /\ messageId \in DOMAIN messages =>
       Len(messages[messageId].reactions)
         + Cardinality({ q \in Procs : proc[q].op = "react" /\ proc[q].mid = messageId })
         < MaxReactions
  /\ LET call == [Idle EXCEPT !.op = "react", !.user = u, !.mid = messageId,
                              !.emoji = emoji, !.started = now]
     IN IF emoji = "none"
          THEN Respond(p, "bad_request", call)
          ELSE Suspend(p, [call EXCEPT !.pc = "find"])
  /\ emitted' = <<>>
  /\ UNCHANGED <<dbVars, netVars, now, sideVars>>

\* after findById: 404, or addReaction on the loaded document (kept in doc)
\* and its save
ReactFind(p) ==
  /\ proc[p].op = "react" /\ proc[p].pc = "find"
  /\ IF proc[p].mid \notin DOMAIN messages
       THEN Respond(p, "not_found", proc[p])
       ELSE Suspend(p, [proc[p] EXCEPT
              !.pc = "save",
              !.chat = messages[proc[p].mid].chatId,
              !.doc = <<messages[proc[p].mid].reactions>>])
  /\ emitted' = <<>>
  /\ UNCHANGED <<dbVars, netVars, now, sideVars>>

\* message.save() writes the reassigned reactions array as a whole; a failed
\* save (database error, version conflict) goes to the catch.  Then the
\* reaction is announced to the chat room
ReactSave(p, dbOk) ==
  /\ proc[p].op = "react" /\ proc[p].pc = "save"
  /\ IF dbOk
       THEN /\ messages' = [messages EXCEPT ![proc[p].mid].reactions =
                              addReaction(proc[p].doc[1], proc[p].user, proc[p].emoji)]
            /\ emitted' = <<sendChatMessage(proc[p].chat,
                              [NoBody EXCEPT !.kind = "reaction_added",
                                             !.mid = proc[p].mid,
                                             !.sender = proc[p].user,
                                             !.emoji = proc[p].emoji])>>
            /\ Respond(p, "ok", proc[p])
       ELSE /\ messages' = messages
            /\ emitted' = <<>>
            /\ Respond(p, "error", proc[p])
  /\ UNCHANGED <<chats, activities, netVars, now, sideVars>>

\* a caller of message.removeReaction(userId, emoji): the document is loaded,
\* filtered, and its save awaited
UnreactLoad(p, u, messageId, emoji) ==
  /\ FirstFree(p)
  /\ messageId \in DOMAIN messages
  /\ Suspend(p, [Idle EXCEPT !.op = "unreact", !.pc = "save", !.user = u,
                             !.mid = messageId, !.emoji = emoji, !.started = now,
                             !.chat = messages[messageId].chatId,
                             !.doc = <<messages[messageId].reactions>>])
  /\ emitted' = <<>>
  /\ UNCHANGED <<dbVars, netVars, now, sideVars>>

UnreactSave(p, dbOk) ==
  /\ proc[p].op = "unreact" /\ proc[p].pc = "save"
  /\ messages' = IF dbOk
                   THEN [messages EXCEPT ![proc[p].mid].reactions =
                           removeReaction(proc[p].doc[1], proc[p].user, proc[p].emoji)]
                   ELSE messages
  /\ emitted' = <<>>
  /\ Respond(p, IF dbOk THEN "ok" ELSE "error", proc[p])
  /\ UNCHANGED <<chats, activities, netVars, now, sideVars>>

\* ---------------------------------------------------------------- read receipts
HasRead(message, userId) ==
  \E i \in DOMAIN message.readBy : message.readBy[i].user = userId

\* messageSchema.statics.getUnreadCount: countDocuments over the filter
getUnreadCount(chatId, userId) ==
  Cardinality({ i \in DOMAIN messages :
                  /\ messages[i].chatId = chatId
                  /\ ~messages[i].isDeleted
                  /\ messages[i].sender # userId
                  /\ ~HasRead(messages[i], userId) })

MarkAllRead_OwnToo(chatId, userId, readAt) ==
  [i \in DOMAIN messages |->
     IF /\ messages[i].chatId = chatId
        /\ ~HasRead(messages[i], userId)
       THEN [messages[i] EXCEPT
               !.readBy = Append(@, [user |-> userId, readAt |-> readAt])]
       ELSE messages[i]]

\* Message.updateMany of PUT /chats/:chatId/read: the filter and the $push
\* apply to each document atomically
MarkAllRead(chatId, userId, readAt) ==
  [i \in DOMAIN messages |->
     IF /\ messages[i].chatId = chatId
        /\ ~HasRead(messages[i], userId)
        /\ messages[i].sender # userId
       THEN [messages[i] EXCEPT
               !.readBy = Append(@, [user |-> userId, readAt |-> readAt])]
       ELSE messages[i]]

\* Chat.findByIdAndUpdate with arrayFilters participant.user = userId
SetLastSeen(chatId, userId, at) ==
  [chats EXCEPT ![chatId].participants =
     [i \in DOMAIN @ |-> IF @[i].user = userId
                           THEN [@[i] EXCEPT !.lastSeenAt = at]
                           ELSE @[i]]]

\* router.put('/chats/:chatId/read') up to Chat.findById
MarkReadStart(p, u, chatId) ==
  /\ FirstFree(p)
  /\ Suspend(p, [Idle EXCEPT !.op = "markRead", !.pc = "find", !.user = u,
                             !.chat = chatId, !.started = now])
  /\ emitted' = <<>>
  /\ UNCHANGED <<dbVars, netVars, now, sideVars>>

\* after findById: 404, 403, or updateMany is issued with readAt = new Date()
MarkReadFind(p) ==
  /\ proc[p].op = "markRead" /\ proc[p].pc = "find"
  /\ LET access == HttpAccess(proc[p].user, proc[p].chat)
     IN IF access # "ok"
          THEN Respond(p, access, proc[p])
          ELSE Suspend(p, [proc[p] EXCEPT !.pc = "update", !.stamp = now])
  /\ emitted' = <<>>
  /\ UNCHANGED <<dbVars, netVars, now, sideVars>>

\* updateMany lands; the lastSeenAt update is issued with new Date()
MarkReadUpdate(p) ==
  /\ proc[p].op = "markRead" /\ proc[p].pc = "update"
  /\ messages' = MarkAllRead(proc[p].chat, proc[p].user, proc[p].stamp)
  /\ Suspend(p, [proc[p] EXCEPT !.pc = "seen", !.stamp = now])
  /\ emitted' = <<>>
  /\ UNCHANGED <<chats, activities, netVars, now, sideVars>>

\* the lastSeenAt update lands; 200
MarkReadSeen(p) ==
  /\ proc[p].op = "markRead" /\ proc[p].pc = "seen"
  /\ chats' = SetLastSeen(proc[p].chat, proc[p].user, proc[p].stamp)
  /\ emitted' = <<>>
  /\ Respond(p, "ok", proc[p])
  /\ UNCHANGED <<messages, activities, netVars, now, sideVars>>

\* the cap on the receipts of one message in the model
MaxReceipts == 2

\* a caller of message.markAsRead(userId): on the loaded document, the
\* alreadyRead test, then the push and the awaited save, or nothing
markAsRead(p, u, messageId) ==
  /\ FirstFree(p)
  /\ messageId \in DOMAIN messages
  /\ Len(messages[messageId].readBy)
       + Cardinality({ q \in Procs : proc[q].op = "markAsRead" /\ proc[q].mid = messageId })
       < MaxReceipts
  /\ LET call == [Idle EXCEPT !.op = "markAsRead", !.user = u, !.mid = messageId,
                              !.chat = messages[messageId].chatId,
                              !.started = now, !.stamp = now]
     IN IF ~HasRead(messages[messageId], u)
          THEN Suspend(p, [call EXCEPT !.pc = "save"])
          ELSE Respond(p, "ok", call)
  /\ emitted' = <<>>
  /\ UNCHANGED <<dbVars, netVars, now, sideVars>>

\* the save of markAsRead: the pushed receipt is appended to the stored array
MarkAsReadSave(p) ==
  /\ proc[p].op = "markAsRead" /\ proc[p].pc = "save"
  /\ messages' = [messages EXCEPT ![proc[p].mid].readBy =
                    Append(@, [user |-> proc[p].user, readAt |-> proc[p].stamp])]
  /\ emitted' = <<>>
  /\ Respond(p, "ok", proc[p])
  /\ UNCHANGED <<chats, activities, netVars, now, sideVars>>

\* ---------------------------------------------------------------- Notification model
\* Notification.type enum
NotificationTypes ==
  {"connection_request", "connection_accepted", "event_reminder", "event_rsvp",
   "job_application", "job_status_update", "survey_invitation", "system",
   "admin_message", "profile_view", "new_job_posting", "event_invitation"}

\* What the callers of NotificationService pass on: createConnectionRequest
\* (a sender, data.senderId), createJobStatusUpdate (no sender, data.jobId),
\* createSurveyInvitation (no sender, data.surveyId) and
\* createSystemNotification (no sender).  ref is the id the data object
\* carries; sender 0 is no sender.
Templates ==
  { [type |-> "connection_request", sender |-> 1, ref |-> 1],
    [type |-> "job_status_update", sender |-> 0, ref |-> 1],
    [type |-> "survey_invitation", sender |-> 0, ref |-> 1],
    [type |-> "system", sender |-> 0, ref |-> 0] }

\* the methods that call createNotification, and those that call
\* createBulkNotifications (createSystemNotification calls either)
SingleTemplates ==
  { t \in Templates : t.type \in {"connection_request", "job_status_update", "system"} }

BulkTemplates == { t \in Templates : t.type \in {"survey_invitation", "system"} }

RecipientLists ==
  {<<>>} \cup { <<u>> : u \in Users } \cup { <<u, v>> : u, v \in Users }

\* new Notification({...template, recipient}): the schema defaults applied,
\* no actionUrl given
NewNotification(recipient, tmpl) ==
  [recipient |-> recipient, sender |-> tmpl.sender, type |-> tmpl.type,
   ref |-> tmpl.ref, actionUrl |-> <<>>, isRead |-> FALSE, readAt |-> -1]

\* the schema's validators: recipient and type required, type in the enum,
\* sender required unless the type is system
ValidNotification(n) ==
  /\ n.recipient # 0
  /\ n.type \in NotificationTypes
  /\ n.type # "system" => n.sender # 0

\* notificationSchema.pre('save'): actionUrl from the type, unless one is set
PreSave(n) ==
  IF n.actionUrl # <<>> THEN n
  ELSE [n EXCEPT !.actionUrl =
          CASE n.type = "connection_request" -> <<"alumni", n.sender>>
            [] n.type \in {"event_reminder", "event_rsvp", "event_invitation"}
                 -> <<"events", n.ref>>
            [] n.type \in {"job_application", "job_status_update", "new_job_posting"}
                 -> <<"jobs", n.ref>>
            [] n.type = "survey_invitation" -> <<"surveys", n.ref>>
            [] n.type = "profile_view" -> <<"alumni", "me", "profile">>
            [] OTHER -> <<"dashboard">>]

\* the documents createBulkNotifications hands to insertMany
RECURSIVE BulkDocs(_, _)
BulkDocs(recipients, tmpl) ==
  IF recipients = <<>> THEN <<>>
  ELSE <<NewNotification(Head(recipients), tmpl)>> \o BulkDocs(Tail(recipients), tmpl)

\* the notifications being created by the calls in flight
Notifying ==
  LET n(p) == IF proc[p].op \in {"notify", "notifyBulk"} THEN Len(proc[p].peers) ELSE 0
      RECURSIVE Sum(_)
      Sum(k) == IF k = 0 THEN 0 ELSE n(k) + Sum(k - 1)
  IN Sum(MaxProcs)

\* Notification.createNotification, called by a method of NotificationService:
\* the document is built and its save issued
createNotification(p, recipient, tmpl) ==
  /\ FirstFree(p)
  /\ Len(notifications) + Notifying < MaxNotes
  /\ Suspend(p, [Idle EXCEPT !.op = "notify", !.pc = "save", !.peers = <<recipient>>,
                             !.user = tmpl.sender, !.type = tmpl.type, !.ref = tmpl.ref,
                             !.started = now])
  /\ emitted' = <<>>
  /\ UNCHANGED <<dbVars, netVars, now, sideVars>>

\* await notification.save(): validation, the pre('save') hook, the insert;
\* the push to the recipient is commented out in the source
NotificationSave(p, dbOk) ==
  /\ proc[p].op = "notify" /\ proc[p].pc = "save"
  /\ LET n == NewNotification(proc[p].peers[1],
                              [type |-> proc[p].type, sender |-> proc[p].user,
                               ref |-> proc[p].ref])
     IN IF ~ValidNotification(n)
          THEN /\ notifications' = notifications
               /\ Respond(p, "invalid", proc[p])
          ELSE IF dbOk
            THEN /\ notifications' = Append(notifications, PreSave(n))
                 /\ Respond(p, "ok", [proc[p] EXCEPT !.mid = Len(notifications) + 1,
                                                     !.doc = <<PreSave(n)>>])
            ELSE /\ notifications' = notifications
                 /\ Respond(p, "error", proc[p])
  /\ emitted' = <<>>
  /\ UNCHANGED <<dbVars, netVars, now, isOnline, writes>>

\* Notification.createBulkNotifications, called by a method of
\* NotificationService: the documents are built and insertMany issued
createBulkNotifications(p, recipients, tmpl) ==
  /\ FirstFree(p)
  /\ Len(notifications) + Notifying + Len(recipients) <= MaxNotes
  /\ Suspend(p, [Idle EXCEPT !.op = "notifyBulk", !.pc = "insert", !.peers = recipients,
                             !.user = tmpl.sender, !.type = tmpl.type, !.ref = tmpl.ref,
                             !.started = now])
  /\ emitted' = <<>>
  /\ UNCHANGED <<dbVars, netVars, now, sideVars>>

\* await this.insertMany(notifications): every document is validated first
\* and one that fails rejects the call with nothing inserted; insertMany
\* runs no save hook; an ordered insert that fails part-way leaves the
\* documents before the failure (kept of them).  The push to the recipients
\* is commented out in the source.
InsertMany(p, dbOk, kept) ==
  /\ proc[p].op = "notifyBulk" /\ proc[p].pc = "insert"
  /\ LET docs == BulkDocs(proc[p].peers,
                          [type |-> proc[p].type, sender |-> proc[p].user,
                           ref |-> proc[p].ref])
     IN IF \E i \in DOMAIN docs : ~ValidNotification(docs[i])
          THEN /\ kept = 0 /\ dbOk
               /\ notifications' = notifications
               /\ Respond(p, "invalid", proc[p])
          ELSE IF dbOk
            THEN /\ kept = Len(docs)
                 /\ notifications' = notifications \o docs
                 /\ Respond(p, "ok", [proc[p] EXCEPT !.mid = Len(notifications),
                                                     !.doc = docs])
            ELSE /\ kept < Len(docs)
                 /\ notifications' = notifications \o SubSeq(docs, 1, kept)
                 /\ Respond(p, "error", proc[p])
  /\ emitted' = <<>>
  /\ UNCHANGED <<dbVars, netVars, now, isOnline, writes>>

\* ---------------------------------------------------------------- GET /notifications
\* the route up to its first await: Notification.find({ recipient: userId })
ListStart(p, u) ==
  /\ FirstFree(p)
  /\ Suspend(p, [Idle EXCEPT !.op = "list", !.pc = "find", !.user = u])
  /\ emitted' = <<>>
  /\ UNCHANGED <<dbVars, netVars, now, sideVars>>

\* the result of the find, as stored (lean); the two counts that follow read
\* only and are not part of the notifications returned
ListFind(p) ==
  /\ proc[p].op = "list" /\ proc[p].pc = "find"
  /\ LET mine(n) == n.recipient = proc[p].user
     IN Respond(p, "ok", [proc[p] EXCEPT !.doc = SelectSeq(notifications, mine)])
  /\ emitted' = <<>>
  /\ UNCHANGED <<dbVars, netVars, now, sideVars>>

\* ---------------------------------------------------------------- reading and removing notifications
\* the place of a notification that was removed: its _id finds nothing
Gone == NewNotification(0, [type |-> "none", sender |-> 0, ref |-> 0])

NoSuchNotification == MaxNotes + 1

\* { _id: id, recipient: userId } matches a stored notification
Mine(id, userId) ==
  /\ id \in DOMAIN notifications
  /\ notifications[id] # Gone
  /\ notifications[id].recipient = userId

NoteCall(op, userId, id) == [Idle EXCEPT !.op = op, !.user = userId, !.mid = id]

\* router.put('/:id/read') up to the landing of Notification.findOne: 404, or
\* markAsRead sets isRead and readAt on the loaded document and issues save
NotificationReadFind(p, u, id) ==
  /\ FirstFree(p)
  /\ IF Mine(id, u)
       THEN Suspend(p, [NoteCall("noteRead", u, id) EXCEPT
                          !.pc = "save", !.doc = <<notifications[id]>>,
                          !.stamp = now, !.started = now])
       ELSE /\ resp' = [res |-> "not_found", call |-> NoteCall("noteRead", u, id)]
            /\ proc' = proc
  /\ emitted' = <<>>
  /\ UNCHANGED <<dbVars, netVars, now, sideVars>>

\* notificationSchema.methods.markAsRead, its save landing: the pre('save')
\* hook runs on the loaded document, the changed paths are written to the
\* stored one; a document removed meanwhile makes save reject (500)
NotificationReadSave(p, dbOk) ==
  /\ proc[p].op = "noteRead" /\ proc[p].pc = "save"
  /\ IF dbOk /\ notifications[proc[p].mid] # Gone
       THEN /\ notifications' =
                 [notifications EXCEPT ![proc[p].mid] =
                    [@ EXCEPT !.isRead = TRUE, !.readAt = proc[p].stamp,
                              !.actionUrl = IF proc[p].doc[1].actionUrl = <<>>
                                              THEN PreSave(proc[p].doc[1]).actionUrl
                                              ELSE @]]
            /\ Respond(p, "ok", proc[p])
       ELSE /\ notifications' = notifications
            /\ Respond(p, "error", proc[p])
  /\ emitted' = <<>>
  /\ UNCHANGED <<dbVars, netVars, now, isOnline, writes>>

markNotificationAsRead_AnyRecipient(c, id) ==
  /\ live[c] # 0
  /\ notifications' =
       IF id \in DOMAIN notifications /\ notifications[id] # Gone
         THEN [notifications EXCEPT ![id] = [@ EXCEPT !.isRead = TRUE, !.readAt = now]]
         ELSE notifications
  /\ resp' = [res |-> "none", call |-> NoteCall("socketNoteRead", live[c], id)]
  /\ emitted' = <<>>
  /\ UNCHANGED <<dbVars, netVars, proc, now, isOnline, writes>>

\* socket.on('mark_notification_read') and the landing of its
\* Notification.findOneAndUpdate({ _id, recipient: socket.userId }, ..): one
\* atomic update, nothing is answered to the socket
markNotificationAsRead(c, id) ==
  /\ live[c] # 0
  /\ notifications' =
       IF Mine(id, live[c])
         THEN [notifications EXCEPT ![id] = [@ EXCEPT !.isRead = TRUE, !.readAt = now]]
         ELSE notifications
  /\ resp' = [res |-> "none", call |-> NoteCall("socketNoteRead", live[c], id)]
  /\ emitted' = <<>>
  /\ UNCHANGED <<dbVars, netVars, proc, now, isOnline, writes>>

\* router.put('/mark-all-read'): Notification.markAllAsReadForUser, one
\* updateMany over { recipient: userId, isRead: false }
markAllAsReadForUser(u) ==
  /\ notifications' =
       [i \in DOMAIN notifications |->
          IF Mine(i, u) /\ ~notifications[i].isRead
            THEN [notifications[i] EXCEPT !.isRead = TRUE, !.readAt = now]
            ELSE notifications[i]]
  /\ resp' = [res |-> "ok", call |-> NoteCall("noteReadAll", u, 0)]
  /\ emitted' = <<>>
  /\ UNCHANGED <<dbVars, netVars, proc, now, isOnline, writes>>

\* router.delete('/:id'): Notification.findOneAndDelete({ _id, recipient }),
\* 404 when it finds nothing
NotificationDelete(u, id) ==
  /\ IF Mine(id, u)
       THEN /\ notifications' = [notifications EXCEPT ![id] = Gone]
            /\ resp' = [res |-> "ok", call |-> NoteCall("noteDelete", u, id)]
       ELSE /\ notifications' = notifications
            /\ resp' = [res |-> "not_found", call |-> NoteCall("noteDelete", u, id)]
  /\ emitted' = <<>>
  /\ UNCHANGED <<dbVars, netVars, proc, now, isOnline, writes>>

\* ---------------------------------------------------------------- DELETE /messages/:messageId
\* messageSchema.methods.softDelete: the fields it sets
softDelete(message, at) == [message EXCEPT !.isDeleted = TRUE, !.deletedAt = at]

MayDelete_Anyone(message, userId) == TRUE

\* the route's check that the requester is the sender
MayDelete(message, userId) == message.sender = userId

DeleteStart(p, u, messageId) ==
  /\ FirstFree(p)
  /\ Suspend(p, [Idle EXCEPT !.op = "delete", !.pc = "find", !.user = u,
                             !.mid = messageId, !.started = now])
  /\ emitted' = <<>>
  /\ UNCHANGED <<dbVars, netVars, now, sideVars>>

\* after findById: 404, 403, or softDelete sets its fields and awaits the save
DeleteFind(p) ==
  /\ proc[p].op = "delete" /\ proc[p].pc = "find"
  /\ IF proc[p].mid \notin DOMAIN messages
       THEN Respond(p, "not_found", proc[p])
       ELSE IF ~MayDelete(messages[proc[p].mid], proc[p].user)
              THEN Respond(p, "forbidden", proc[p])
              ELSE Suspend(p, [proc[p] EXCEPT !.pc = "save", !.stamp = now,
                                              !.chat = messages[proc[p].mid].chatId])
  /\ emitted' = <<>>
  /\ UNCHANGED <<dbVars, netVars, now, sideVars>>

\* the save lands, then the message_deleted broadcast and the 200
DeleteSave(p, dbOk) ==
  /\ proc[p].op = "delete" /\ proc[p].pc = "save"
  /\ IF dbOk
       THEN /\ messages' = [messages EXCEPT
                              ![proc[p].mid] = softDelete(@, proc[p].stamp)]
            /\ emitted' = <<sendChatMessage(proc[p].chat,
                              [NoBody EXCEPT !.kind = "message_deleted",
                                             !.mid = proc[p].mid,
                                             !.chat = proc[p].chat])>>
            /\ Respond(p, "ok", proc[p])
       ELSE /\ messages' = messages
            /\ emitted' = <<>>
            /\ Respond(p, "error", proc[p])
  /\ UNCHANGED <<chats, activities, netVars, now, sideVars>>

\* ---------------------------------------------------------------- clock
Tick ==
  /\ now < MaxTime
  /\ now' = now + 1
  /\ emitted' = <<>>
  /\ resp' = NoResp
  /\ UNCHANGED <<dbVars, netVars, proc, sideVars>>

\* ---------------------------------------------------------------- specifications
Init ==
  /\ chats = <<>>
  /\ messages = <<>>
  /\ activities = <<>>
  /\ live = [c \in Conns |-> 0]
  /\ rooms = [c \in Conns |-> {}]
  /\ proc = [p \in Procs |-> Idle]
  /\ emitted = <<>>
  /\ resp = NoResp
  /\ now = 0
  /\ notifications = <<>>
  /\ isOnline = [u \in Users |-> FALSE]
  /\ writes = <<>>

ChatNext ==
  \/ \E p \in Procs, u \in Users, type \in {"direct", "group"},
        name \in {"", "g"}, ids \in PeerLists :
       CreateChatStart(p, u, type, name, ids)
  \/ \E p \in Procs : createDirectChat(p)
  \/ \E p \in Procs : CreateChatSave(p)
  \/ \E p \in Procs : CreateChatPopulate(p)
  \/ \E p \in Procs : CreateChatRespond(p)

\* chat creation, handlers interleaving at their awaits
SpecChat == Init /\ [][ChatNext]_vars

\* the state after createDirectChat(1, 2) and createGroupChat(2, "g", <<3>>)
SeedChats == <<NewDirectChat(1, 2), NewGroupChat(2, "g", <<3>>)>>

\* ... and after the sockets of user 1 and of user 3 have connected
SeedLive == [c \in Conns |-> IF c = 1 THEN 1 ELSE IF c = 2 THEN 3 ELSE 0]
SeedRooms == [c \in Conns |-> IF SeedLive[c] = 0 THEN {} ELSE {UserRoom(SeedLive[c])}]
\* ... and the User updates of these connections have been applied
SeedOnline == [u \in Users |-> \E c \in Conns : SeedLive[c] = u]

SendInit ==
  /\ now = 0
  /\ chats = SeedChats
  /\ messages = <<>>
  /\ activities = <<>>
  /\ live = SeedLive
  /\ rooms = SeedRooms
  /\ notifications = <<>>
  /\ isOnline = SeedOnline
  /\ writes = <<>>
  /\ proc = [p \in Procs |-> Idle]
  /\ emitted = <<>>
  /\ resp = NoResp

\* the chat ids a client may name: those of the stored chats, and one that
\* resolves to nothing
ChatTargets == DOMAIN chats \cup {NoSuchChat}

LinkNext ==
  \/ \E c \in Conns, u \in Users : Connect(c, u)
  \/ \E c \in Conns : Disconnect(c)

\* sockets join and leave the rooms of the stored chats
RoomNext ==
  \/ \E c \in Conns, chatId \in DOMAIN chats : JoinChat(c, chatId)
  \/ \E c \in Conns, chatId \in DOMAIN chats : LeaveChat(c, chatId)

SendSteps ==
  \/ \E p \in Procs : HttpSendFind(p)
  \/ \E p \in Procs, dbOk \in BOOLEAN : HttpSendSave(p, dbOk)
  \/ \E p \in Procs : HttpSendPopulate(p)
  \/ \E p \in Procs : HttpSendChatSave(p)
  \/ \E p \in Procs, dbOk \in BOOLEAN : HttpSendActivity(p, dbOk)
  \/ \E p \in Procs, dbOk \in BOOLEAN : SocketSendSave(p, dbOk)
  \/ \E p \in Procs : SocketSendPopulate(p)
  \/ \E p \in Procs : SocketSendChatUpdate(p)

SendNext ==
  \/ \E p \in Procs, u \in Users, chatId \in ChatTargets,
        content \in Contents, type \in Types :
       HttpSendStart(p, u, chatId, content, type)
  \/ \E p \in Procs, c \in Conns, chatId \in ChatTargets,
        content \in Contents, type \in Types :
       SocketSendStart(p, c, chatId, content, type)
  \/ SendSteps

\* the first send into an empty Message collection
FirstSendNext ==
  \/ \E p \in Procs, u \in Users, chatId \in ChatTargets,
        content \in Contents, type \in Types :
       Quiet /\ messages = <<>> /\ HttpSendStart(p, u, chatId, content, type)
  \/ \E p \in Procs, c \in Conns, chatId \in ChatTargets,
        content \in Contents, type \in Types :
       Quiet /\ messages = <<>> /\ SocketSendStart(p, c, chatId, content, type)
  \/ SendSteps

\* sends over both entry points, interleaved, while the clock advances
SpecSend == SendInit /\ [][SendNext \/ Tick]_vars

\* ... and both sockets are sockets of user 1
CastLive == [c \in Conns |-> 1]

CastInit ==
  /\ now = 0
  /\ chats = SeedChats
  /\ messages = <<>>
  /\ activities = <<>>
  /\ live = CastLive
  /\ rooms = [c \in Conns |-> {UserRoom(CastLive[c])}]
  /\ notifications = <<>>
  /\ isOnline = [u \in Users |-> \E c \in Conns : CastLive[c] = u]
  /\ writes = <<>>
  /\ proc = [p \in Procs |-> Idle]
  /\ emitted = <<>>
  /\ resp = NoResp

\* one send, by any user, while the two sockets of user 1 join and leave
SpecCast == CastInit /\ [][FirstSendNext \/ RoomNext]_vars

\* the state after the chats were created, the socket of user 1 has
\* connected and has joined chat 1 and forum 1
Forums == {1}

LinkInit ==
  /\ now = 0
  /\ chats = SeedChats
  /\ messages = <<>>
  /\ activities = <<>>
  /\ live = [c \in Conns |-> IF c = 1 THEN 1 ELSE 0]
  /\ rooms = [c \in Conns |-> IF c = 1 THEN {UserRoom(1), ChatRoom(1), ForumRoom(1)}
                                        ELSE {}]
  /\ notifications = <<>>
  /\ isOnline = [u \in Users |-> u = 1]
  /\ writes = <<>>
  /\ proc = [p \in Procs |-> Idle]
  /\ emitted = <<>>
  /\ resp = NoResp

\* the payloads of join_chat, leave_chat and typing: chat 1, or none at all
EventTargets == {1, NoData}

SocketNext ==
  \/ LinkNext
  \/ \E i \in 1..MaxWrites : UserUpdate(i)
  \/ \E c \in Conns, chatId \in EventTargets : JoinChat(c, chatId)
  \/ \E c \in Conns, chatId \in EventTargets : LeaveChat(c, chatId)
  \/ \E c \in Conns, forumId \in Forums : JoinForum(c, forumId)
  \/ \E c \in Conns, forumId \in Forums : LeaveForum(c, forumId)
  \/ \E c \in Conns, chatId \in EventTargets, isTyping \in BOOLEAN :
       Typing(c, chatId, isTyping)
  \/ \E u \in Users : ServiceEmit(sendNotification(u, NoBody))
  \/ ServiceEmit(sendChatMessage(1, NoBody))
  \/ \E forumId \in Forums : ServiceEmit(sendForumUpdate(forumId, NoBody))

\* sockets connect and disconnect while the database applies the User
\* updates, here in the order they were issued
PresenceNext ==
  \/ LinkNext
  \/ UserUpdate(1)

SpecPresence == LinkInit /\ [][PresenceNext]_vars

\* one socket: a user connects and disconnects, while the database applies
\* the pending User updates in any order
RaceNext ==
  \/ \E u \in Users : Connect(1, u)
  \/ Disconnect(1)
  \/ \E i \in 1..MaxWrites : UserUpdate(i)

SpecRace == Init /\ [][RaceNext]_vars

NotifyNext ==
  \/ \E p \in Procs, recipient \in Users, tmpl \in SingleTemplates :
       createNotification(p, recipient, tmpl)
  \/ \E p \in Procs, dbOk \in BOOLEAN : NotificationSave(p, dbOk)
  \/ \E p \in Procs, recipients \in RecipientLists, tmpl \in BulkTemplates :
       createBulkNotifications(p, recipients, tmpl)
  \/ \E p \in Procs, dbOk \in BOOLEAN, kept \in 0..MaxNotes : InsertMany(p, dbOk, kept)
  \/ \E p \in Procs, u \in Users : ListStart(p, u)
  \/ \E p \in Procs : ListFind(p)

\* notifications created and listed while the sockets of users 1 and 3 are
\* connected and user 2 has none
SpecNotify == SendInit /\ [][NotifyNext]_vars

\* the socket layer alone: sockets connect, join, leave, type and disconnect
\* while the application emits to personal, chat and forum rooms
SpecLink == LinkInit /\ [][SocketNext]_vars

\* the state after the chats were created and the sockets of users 1 and 2,
\* the participants of chat 1, have connected; socket 1 has joined chat 1
FlightLive == [c \in Conns |-> IF c = 1 THEN 1 ELSE IF c = 2 THEN 2 ELSE 0]

FlightRooms ==
  [c \in Conns |-> IF FlightLive[c] = 0 THEN {}
                    ELSE IF c = 1 THEN {UserRoom(1), ChatRoom(1)}
                    ELSE {UserRoom(FlightLive[c])}]

FlightInit ==
  /\ now = 0
  /\ chats = SeedChats
  /\ messages = <<>>
  /\ activities = <<>>
  /\ live = FlightLive
  /\ rooms = FlightRooms
  /\ notifications = <<>>
  /\ isOnline = [u \in Users |-> \E c \in Conns : FlightLive[c] = u]
  /\ writes = <<>>
  /\ proc = [p \in Procs |-> Idle]
  /\ emitted = <<>>
  /\ resp = NoResp

\* a send arrives while the rooms are as seeded; sockets join, leave and
\* disconnect only while a send is in flight
FlightNext ==
  \/ \E p \in Procs, u \in Users, chatId \in ChatTargets,
        content \in Contents, type \in Types :
       /\ Quiet /\ messages = <<>> /\ live = FlightLive /\ rooms = FlightRooms
       /\ HttpSendStart(p, u, chatId, content, type)
  \/ \E p \in Procs, c \in Conns, chatId \in ChatTargets,
        content \in Contents, type \in Types :
       /\ Quiet /\ messages = <<>> /\ live = FlightLive /\ rooms = FlightRooms
       /\ SocketSendStart(p, c, chatId, content, type)
  \/ SendSteps
  \/ ~Quiet /\ RoomNext
  \/ \E c \in Conns : ~Quiet /\ Disconnect(c)

SpecFlight == FlightInit /\ [][FlightNext]_vars

\* ... and after user 1 has sent a message to chat 1 and user 3 to chat 2
SeedMessages ==
  <<NewMessage(1, 1, <<"a">>, "text"), NewMessage(2, 3, <<"a">>, "text")>>

SeedChatsTouched ==
  <<[SeedChats[1] EXCEPT !.lastMessage = 1], [SeedChats[2] EXCEPT !.lastMessage = 2]>>

MsgInit ==
  /\ now = 0
  /\ chats = SeedChatsTouched
  /\ messages = SeedMessages
  /\ activities = <<[user |-> 1, chatId |-> 1, targetUser |-> 2]>>
  /\ live = SeedLive
  /\ rooms = SeedRooms
  /\ notifications = <<>>
  /\ isOnline = SeedOnline
  /\ writes = <<>>
  /\ proc = [p \in Procs |-> Idle]
  /\ emitted = <<>>
  /\ resp = NoResp

\* the state after user 1 has sent one message to chat 1
OneMsgInit ==
  /\ now = 0
  /\ chats = <<SeedChatsTouched[1], SeedChats[2]>>
  /\ messages = <<SeedMessages[1]>>
  /\ activities = <<[user |-> 1, chatId |-> 1, targetUser |-> 2]>>
  /\ live = SeedLive
  /\ rooms = SeedRooms
  /\ notifications = <<>>
  /\ isOnline = SeedOnline
  /\ writes = <<>>
  /\ proc = [p \in Procs |-> Idle]
  /\ emitted = <<>>
  /\ resp = NoResp

MessageTargets == DOMAIN messages \cup {NoSuchMessage}

\* one reaction call at a time
SeqReactNext ==
  \/ \E p \in Procs, u \in Users, m \in MessageTargets, e \in Emojis \cup {"none"} :
       Quiet /\ ReactStart(p, u, m, e)
  \/ \E p \in Procs : ReactFind(p)
  \/ \E p \in Procs, dbOk \in BOOLEAN : ReactSave(p, dbOk)
  \/ \E p \in Procs, u \in Users, m \in MessageTargets, e \in Emojis :
       Quiet /\ UnreactLoad(p, u, m, e)
  \/ \E p \in Procs, dbOk \in BOOLEAN : UnreactSave(p, dbOk)

\* reactions added and removed, one call at a time
SeqSpecReact == OneMsgInit /\ [][SeqReactNext]_vars

ReadNext ==
  \/ \E p \in Procs, u \in Users, chatId \in ChatTargets : MarkReadStart(p, u, chatId)
  \/ \E p \in Procs : MarkReadFind(p)
  \/ \E p \in Procs : MarkReadUpdate(p)
  \/ \E p \in Procs : MarkReadSeen(p)
  \/ \E p \in Procs, u \in Users, m \in MessageTargets : markAsRead(p, u, m)
  \/ \E p \in Procs : MarkAsReadSave(p)

\* read receipts, handlers interleaving
SpecRead == OneMsgInit /\ [][ReadNext]_vars

\* the state after createConnectionRequest has notified user 2 and a bulk
\* system notification has reached user 3
SeedNotifications ==
  <<PreSave(NewNotification(2, [type |-> "connection_request", sender |-> 1, ref |-> 1])),
    NewNotification(3, [type |-> "system", sender |-> 0, ref |-> 0])>>

InboxInit ==
  /\ now = 0
  /\ chats = SeedChats
  /\ messages = <<>>
  /\ activities = <<>>
  /\ live = SeedLive
  /\ rooms = SeedRooms
  /\ notifications = SeedNotifications
  /\ isOnline = SeedOnline
  /\ writes = <<>>
  /\ proc = [p \in Procs |-> Idle]
  /\ emitted = <<>>
  /\ resp = NoResp

NotificationTargets == DOMAIN notifications \cup {NoSuchNotification}

InboxNext ==
  \/ \E p \in Procs, u \in Users, id \in NotificationTargets : NotificationReadFind(p, u, id)
  \/ \E p \in Procs, dbOk \in BOOLEAN : NotificationReadSave(p, dbOk)
  \/ \E c \in Conns, id \in NotificationTargets : markNotificationAsRead(c, id)
  \/ \E u \in Users : markAllAsReadForUser(u)
  \/ \E u \in Users, id \in NotificationTargets : NotificationDelete(u, id)

\* the stored notifications being marked read and removed, over HTTP and
\* over the sockets, by every user, while the clock advances
SpecInbox == InboxInit /\ [][InboxNext \/ Tick]_vars

MarkReadNext ==
  \/ \E p \in Procs, u \in Users, chatId \in ChatTargets : MarkReadStart(p, u, chatId)
  \/ \E p \in Procs : MarkReadFind(p)
  \/ \E p \in Procs : MarkReadUpdate(p)
  \/ \E p \in Procs : MarkReadSeen(p)

\* PUT /chats/:chatId/read alone, requests interleaving, over the two stored
\* messages while the clock advances
SpecMarkRead == MsgInit /\ [][MarkReadNext \/ Tick]_vars

DeleteNext ==
  \/ \E p \in Procs, u \in Users, m \in MessageTargets : DeleteStart(p, u, m)
  \/ \E p \in Procs : DeleteFind(p)
  \/ \E p \in Procs, dbOk \in BOOLEAN : DeleteSave(p, dbOk)

\* soft deletion, handlers interleaving
SpecDelete == MsgInit /\ [][DeleteNext \/ Tick]_vars

\* one handler at a time: a request starts only when no other is in flight

SeqChatNext ==
  \/ \E p \in Procs, u \in Users, type \in {"direct", "group"},
        name \in {"", "g"}, ids \in PeerLists :
       Quiet /\ CreateChatStart(p, u, type, name, ids)
  \/ \E p \in Procs : createDirectChat(p)
  \/ \E p \in Procs : CreateChatSave(p)
  \/ \E p \in Procs : CreateChatPopulate(p)
  \/ \E p \in Procs : CreateChatRespond(p)

SeqSpecChat == Init /\ [][SeqChatNext]_vars

\* ================================================================ claims
SendCall(call) == call.op \in {"httpSend", "socketSend"}

\* a send that passed the content check, by a user outside an existing chat
OutsiderSend(call) ==
  /\ SendCall(call)
  /\ ~ContentMissing(call.content)
  /\ ChatExists(call.chat)
  /\ ~isParticipant(chats[call.chat], call.user)

\* C1: a send by a user who is not a participant of the chat is refused, on
\* the HTTP route and on the socket event alike: it does not succeed and
\* broadcasts no new_message, no stored message has a sender outside its
\* chat, and no chat's lastMessage is such a message.  (A refusal for another
\* reason than Forbidden, a storage error for one, is let through here.)
C1_OutsiderSendRefused ==
  /\ \A m \in DOMAIN messages :
       ChatExists(messages[m].chatId) =>
         isParticipant(chats[messages[m].chatId], messages[m].sender)
  /\ \A c \in DOMAIN chats :
       chats[c].lastMessage # 0 =>
         isParticipant(chats[c], messages[chats[c].lastMessage].sender)
  /\ OutsiderSend(resp.call) =>
       /\ resp.res # "ok"
       /\ \A i \in DOMAIN emitted : emitted[i].ev # "new_message"

DirectCall(call) ==
  call.op = "createChat" /\ call.type = "direct" /\ Len(call.peers) = 1

\* the direct chats whose participants are exactly a and b
PairChats(a, b) ==
  { i \in DOMAIN chats : chats[i].type = "direct" /\ ParticipantSet(chats[i]) = {a, b} }

\* a createDirectChat call of p that finds, or has just stored, its chat
Settled(p) ==
  /\ DirectCall(proc[p])
  /\ proc[p].user # proc[p].peers[1]
  /\ FindDirect(proc[p].user, proc[p].peers[1]) # 0

C2_Returned ==
  (resp.res = "ok" /\ DirectCall(resp.call) /\ resp.call.user # resp.call.peers[1]) =>
    /\ PairChats(resp.call.user, resp.call.peers[1]) = {resp.call.chat}
    /\ Len(chats[resp.call.chat].participants) = 2

C2_Frame ==
  \A p \in Procs :
    (Settled(p) /\ proc'[p] # proc[p]) =>
      /\ chats' = chats
      /\ proc[p].pc = "find" =>
           proc'[p].chat = FindDirect(proc[p].user, proc[p].peers[1])

\* C2: with A # B and calls made one after the other, every createDirectChat
\* of A and B, in either order, returns the one direct chat whose participant
\* set is {A, B} (stored chats are never removed and their participants never
\* change, so any two calls return the same id), and a call that finds the
\* chat changes nothing.
C2_DirectChatFindOrCreate == [](C2_Returned) /\ [][C2_Frame]_vars

\* a call in the order (B, A) has returned the chat that (A, B) created
C2_Witness ==
  /\ resp.res = "ok" /\ DirectCall(resp.call)
  /\ resp.call.user # resp.call.peers[1]
  /\ resp.call.doc = <<>>
  /\ chats[resp.call.chat].createdBy = resp.call.peers[1]

\* C3: at most one direct chat is stored for a pair of users, whatever the
\* interleaving of the createDirectChat calls.
C3_DirectChatUnique ==
  \A i, j \in DOMAIN chats :
    (i # j /\ chats[i].type = "direct" /\ chats[j].type = "direct") =>
      ParticipantSet(chats[i]) # ParticipantSet(chats[j])

C4_AtUpdate ==
  \A p \in Procs :
    (/\ proc[p].pc \in {"chatSave", "chatUpdate"}
     /\ proc'[p] # proc[p]
     /\ ChatExists(proc[p].chat)) =>
      /\ chats'[proc[p].chat].lastMessage = proc[p].mid
      /\ chats'[proc[p].chat].lastActivity >= proc[p].started

C4_AtReturn ==
  (SendCall(resp.call) /\ resp.res = "ok" /\ ChatExists(resp.call.chat)) =>
    LET chat == chats[resp.call.chat]
    IN \/ /\ chat.lastMessage = resp.call.mid
          /\ chat.lastActivity >= resp.call.started
       \/ /\ resp.call.op = "httpSend"
          /\ chat.type = "direct"
          /\ chat.lastMessage \in DOMAIN messages
          /\ chat.lastMessage # resp.call.mid
          /\ messages[chat.lastMessage].chatId = resp.call.chat

C5_BroadcastToRoom ==
  (SendCall(resp.call) /\ resp.res = "ok") =>
    /\ Len(emitted) = 1
    /\ emitted[1].ev = "new_message"
    /\ emitted[1].body.mid = resp.call.mid
    /\ emitted[1].to =
         { c \in Conns : live[c] # 0 /\ ChatRoom(resp.call.chat) \in rooms[c] }

\* the sender has two sockets: the one that joined the room receives the
\* message, the other does not
C5_Witness ==
  /\ SendCall(resp.call) /\ resp.res = "ok" /\ Len(emitted) = 1
  /\ \E c1, c2 \in Conns :
       /\ live[c1] = resp.call.user /\ live[c2] = resp.call.user
       /\ c1 \in emitted[1].to
       /\ c2 \notin emitted[1].to

\* C6: every stored message belongs to a stored chat, and a send to a chat id
\* that resolves to nothing does not succeed, on both entry points.
C6_MessagesHaveChat ==
  /\ \A m \in DOMAIN messages : ChatExists(messages[m].chatId)
  /\ (SendCall(resp.call) /\ ~ChatExists(resp.call.chat)) => resp.res # "ok"

\* the outcome of the HTTP route for a request, the database not failing
HttpOutcome(call) ==
  IF ContentMissing(call.content) THEN "bad_request"
  ELSE IF HttpAccess(call.user, call.chat) # "ok" THEN HttpAccess(call.user, call.chat)
  ELSE IF ~ValidMessage(NewMessage(call.chat, call.user, call.content, call.type))
    THEN "error"
  ELSE "ok"

\* C7: the socket event accepts a request only if the HTTP route accepts the
\* same request in the same state (and the HTTP route answers as its checks
\* say); an accepted request leaves the same stored message and reaches the
\* same sockets on both.
C7_EntryPointsAgree ==
  /\ (resp.call.op = "httpSend" /\ resp.res # "error") =>
       resp.res = HttpOutcome(resp.call)
  /\ (resp.call.op = "socketSend" /\ resp.res = "ok") =>
       /\ HttpOutcome(resp.call) = "ok"
       /\ messages[resp.call.mid]
            = NewMessage(resp.call.chat, resp.call.user, resp.call.content, resp.call.type)
       /\ emitted[1].to = sendChatMessage(resp.call.chat, NoBody).to

Count(reactions, userId, emoji) ==
  Cardinality({ i \in DOMAIN reactions :
                  reactions[i].user = userId /\ reactions[i].emoji = emoji })

\* C8: a message never holds two reactions of the same user with the same
\* emoji; an addReaction that succeeds leaves exactly one entry for its
\* (user, emoji), also when that entry was already there, and a removeReaction
\* none; both leave every other entry as it was, in order.
C8_OneReactionPerUserEmoji ==
  /\ \A m \in DOMAIN messages : \A u \in Users, e \in Emojis :
       Count(messages[m].reactions, u, e) <= 1
  /\ (resp.call.op \in {"react", "unreact"} /\ resp.res = "ok") =>
       LET stored == messages[resp.call.mid].reactions
           loaded == resp.call.doc[1]
       IN /\ Count(stored, resp.call.user, resp.call.emoji)
               = (IF resp.call.op = "react" THEN 1 ELSE 0)
          /\ WithoutReaction(stored, resp.call.user, resp.call.emoji)
               = WithoutReaction(loaded, resp.call.user, resp.call.emoji)

\* an addReaction has been applied to a message that already held the same
\* reaction, and one of another user
C8_Witness ==
  /\ resp.call.op = "react" /\ resp.res = "ok"
  /\ Count(resp.call.doc[1], resp.call.user, resp.call.emoji) = 1
  /\ \E i \in DOMAIN resp.call.doc[1] : resp.call.doc[1][i].user # resp.call.user

\* C9: a user appears at most once in the read receipts of a message.
C9_OneReceiptPerUser ==
  \A m \in DOMAIN messages : \A i, j \in DOMAIN messages[m].readBy :
    i # j => messages[m].readBy[i].user # messages[m].readBy[j].user

\* a delete requested by someone other than the sender of a stored message
ForeignDelete(call) ==
  /\ call.op = "delete"
  /\ call.mid \in DOMAIN messages
  /\ messages[call.mid].sender # call.user

C10_Refused ==
  ForeignDelete(resp.call) => resp.res = "forbidden" /\ emitted = <<>>

C10_Frame ==
  \A p \in Procs :
    (ForeignDelete(proc[p]) /\ proc'[p] # proc[p]) =>
      /\ messages' = messages
      /\ chats' = chats
      /\ emitted' = <<>>
      /\ resp'.res = "forbidden"

\* C10: a delete requested by anyone but the sender of the message ends
\* Forbidden, changes nothing of what is stored (content, isDeleted and
\* deletedAt of the message included) and emits nothing.
C10_ForeignDeleteRefused == [](C10_Refused) /\ [][C10_Frame]_vars

\* a delete by another user has been refused and the message is intact
C10_Witness ==
  /\ ForeignDelete(resp.call) /\ resp.res = "forbidden"
  /\ ~messages[resp.call.mid].isDeleted
  /\ messages[resp.call.mid].deletedAt = -1
  /\ messages[resp.call.mid].content = <<"a">>

\* C11: a socket that has disconnected is in no room, personal, chat or
\* forum, and nothing emitted to a room reaches a socket that is not
\* connected or not in that room.
C11_DisconnectLeavesRooms ==
  /\ \A c \in Conns : live[c] = 0 => rooms[c] = {}
  /\ \A i \in DOMAIN emitted :
       emitted[i].to \subseteq
         { c \in Conns : live[c] # 0 /\ emitted[i].room \in rooms[c] }

\* socket 1, which had joined chat 1, is disconnected, and a new_message
\* emitted to chat 1 has reached socket 2 only
C11_Witness ==
  /\ live[1] = 0 /\ rooms[1] = {}
  /\ Len(emitted) = 1
  /\ emitted[1].ev = "new_message"
  /\ emitted[1].room = ChatRoom(1)
  /\ emitted[1].to = {2}

\* C12: once every User update issued by the socket layer has been applied,
\* a user's isOnline is true if and only if a live socket is authenticated as
\* that user.
C12_OnlineIffLive ==
  writes = <<>> =>
    \A u \in Users : isOnline[u] <=> (\E c \in Conns : live[c] = u)

PersonalRooms(c) == { r \in rooms[c] : r[1] = "user" }

\* C13: the personal rooms of a socket are exactly the room of the user it
\* is authenticated as while it is connected, and none otherwise, whatever
\* join_chat, leave_chat, join_forum and leave_forum events it has sent.
C13_PersonalRoomImplicit ==
  \A c \in Conns :
    PersonalRooms(c) = IF live[c] # 0 THEN {UserRoom(live[c])} ELSE {}

\* socket 1 has left chat 1 and is still in forum 1; socket 2 is connected
\* as another user and has joined chat 1 and forum 1
C13_Witness ==
  /\ live[1] # 0 /\ live[2] # 0 /\ live[1] # live[2]
  /\ ChatRoom(1) \notin rooms[1] /\ ForumRoom(1) \in rooms[1]
  /\ ChatRoom(1) \in rooms[2] /\ ForumRoom(1) \in rooms[2]
  /\ UserRoom(live[1]) \in rooms[1]

\* C17: no event of a client makes the process exit.
C17_NoExit == resp.res # "exit"

\* C14: a notifyBulk over n recipient ids that the database does not fail
\* succeeds and stores exactly n notifications, the i-th with the i-th
\* recipient id as its recipient.
C14_BulkPersistsAll ==
  (resp.call.op = "notifyBulk" /\ resp.res # "error") =>
    /\ resp.res = "ok"
    /\ Len(resp.call.doc) = Len(resp.call.peers)
    /\ \A i \in DOMAIN resp.call.doc :
         /\ resp.call.doc[i].recipient = resp.call.peers[i]
         /\ resp.call.mid + i \in DOMAIN notifications
         /\ notifications[resp.call.mid + i] = resp.call.doc[i]

\* C15: every stored notification carries the actionUrl that the derivation
\* gives for its type, sender and data, and so does every notification that
\* list-notifications returns.
C15_ActionUrlDerived ==
  /\ \A i \in DOMAIN notifications :
       notifications[i].actionUrl
         = PreSave([notifications[i] EXCEPT !.actionUrl = <<>>]).actionUrl
  /\ resp.call.op = "list" =>
       \A j \in DOMAIN resp.call.doc :
         resp.call.doc[j].actionUrl
           = PreSave([resp.call.doc[j] EXCEPT !.actionUrl = <<>>]).actionUrl

\* C16: when notify(R, n) succeeds, the notification is stored unread for R
\* and a new_notification has been emitted to the personal room of R; it
\* reaches every socket R has at that time.
C16_PersistThenPush ==
  (resp.call.op = "notify" /\ resp.res = "ok") =>
    LET R == resp.call.peers[1]
    IN /\ resp.call.mid \in DOMAIN notifications
       /\ notifications[resp.call.mid].recipient = R
       /\ ~notifications[resp.call.mid].isRead
       /\ (\E c \in Conns : live[c] = R) =>
            \E i \in DOMAIN emitted :
              /\ emitted[i].ev = "new_notification"
              /\ emitted[i].room = UserRoom(R)
              /\ emitted[i].to = { c \in Conns : live[c] = R }

\* C18: every new_message names a message that is stored, with the chat and
\* the sender it is stored with; a send whose message was not stored
\* broadcasts nothing, and its failure goes to the caller alone: the HTTP
\* response, or a message_error to the emitting socket.
C18_BroadcastAfterPersist ==
  /\ \A i \in DOMAIN emitted :
       (emitted[i].ev = "new_message" /\ emitted[i].body.kind = "message") =>
         /\ emitted[i].body.mid \in DOMAIN messages
         /\ messages[emitted[i].body.mid].chatId = emitted[i].body.chat
         /\ messages[emitted[i].body.mid].sender = emitted[i].body.sender
  /\ (SendCall(resp.call) /\ resp.res = "error" /\ resp.call.mid = 0) =>
       \A i \in DOMAIN emitted :
         /\ resp.call.op = "socketSend"
         /\ emitted[i].ev = "message_error"
         /\ emitted[i].room = <<"socket", resp.call.conn>>
         /\ emitted[i].to \subseteq {resp.call.conn}

\* the database has failed the save of a valid message sent over a socket,
\* and the message_error has gone to that socket
C18_Witness ==
  /\ resp.call.op = "socketSend" /\ resp.res = "error" /\ resp.call.mid = 0
  /\ ValidMessage(NewMessage(resp.call.chat, resp.call.user,
                             resp.call.content, resp.call.type))
  /\ Len(emitted) = 1
  /\ emitted[1].ev = "message_error"
  /\ emitted[1].to = {resp.call.conn}
  /\ messages = <<>>

\* a valid send_message of socket c to a chat, received before call and not
\* yet stored
EarlierUnsaved(p, call) ==
  /\ proc[p].op = "socketSend" /\ proc[p].pc = "save"
  /\ ValidMessage(NewMessage(proc[p].chat, proc[p].user, proc[p].content, proc[p].type))
  /\ proc[p].conn = call.conn
  /\ proc[p].chat = call.chat
  /\ proc[p].started < call.started

\* C19: of two send_message events of one socket to one chat, the one
\* received later is neither stored nor broadcast while the earlier one is
\* still waiting to be stored.
C19_PerSocketOrder ==
  \A p \in Procs :
    /\ \A q \in Procs :
         (proc[q].op = "socketSend" /\ EarlierUnsaved(p, proc[q])) => proc[q].pc = "save"
    /\ ~(resp.call.op = "socketSend" /\ resp.res = "ok" /\ EarlierUnsaved(p, resp.call))

C20_OwnMessage ==
  \A c \in DOMAIN chats :
    chats[c].lastMessage # 0 =>
      /\ chats[c].lastMessage \in DOMAIN messages
      /\ messages[chats[c].lastMessage].chatId = c

\* C20 as claimed: lastMessage of a chat is always a message stored for that
\* chat, and when no send is in flight it is the message of the chat that was
\* stored last.
C20_LastStoredWins ==
  /\ C20_OwnMessage
  /\ Quiet =>
       \A m \in DOMAIN messages :
         ChatExists(messages[m].chatId) => chats[messages[m].chatId].lastMessage >= m

C20_LastWriter ==
  \A c \in DOMAIN chats :
    chats'[c].lastMessage # chats[c].lastMessage =>
      \E p \in Procs :
        /\ SendCall(proc[p])
        /\ proc[p].pc \in {"chatSave", "chatUpdate"}
        /\ proc[p].chat = c
        /\ proc'[p] # proc[p]
        /\ chats'[c].lastMessage = proc[p].mid

\* C20 as amended: lastMessage of a chat is always a message stored for that
\* chat; it changes only when a send applies its chat update, which sets it
\* to the message of that send.  Once two sends have completed it is the
\* message of the send whose chat update was applied last, which need not be
\* the message stored last.
C20_LastWriterWins == [](C20_OwnMessage) /\ [][C20_LastWriter]_vars

\* two sends to one chat have completed and lastMessage is the message that
\* was stored first
C20_Witness ==
  /\ Quiet
  /\ Len(messages) = 2
  /\ messages[1].chatId = messages[2].chatId
  /\ ChatExists(messages[1].chatId)
  /\ chats[messages[1].chatId].lastMessage = 1

C21_CurrentMembers ==
  /\ resp.res # "exit"
  /\ \A i \in DOMAIN emitted :
       emitted[i].ev = "new_message" =>
         emitted[i].to = { c \in Conns : live[c] # 0 /\ emitted[i].room \in rooms[c] }

\* a socket joining, leaving or disconnecting leaves the handlers in flight
\* and the stored documents as they are; the step that ends a stored socket
\* send broadcasts it, whether or not its socket is still connected
C21_InFlight ==
  /\ (live' # live \/ rooms' # rooms) => (proc' = proc /\ dbVars' = dbVars)
  /\ \A p \in Procs :
       (proc[p].op = "socketSend" /\ proc[p].mid # 0 /\ proc'[p] = Idle) =>
         /\ resp'.res = "ok"
         /\ proc[p].mid \in DOMAIN messages'
         /\ Len(emitted') = 1
         /\ emitted'[1].ev = "new_message"
         /\ emitted'[1].room = ChatRoom(proc[p].chat)

\* C21: a new_message reaches the sockets that are in the chat room when it
\* is emitted, whatever the room held when the send arrived; the disconnect
\* of the sending socket during the send leaves the send running and the
\* process up: the message is stored and broadcast.
C21_BroadcastAtEmitTime == [](C21_CurrentMembers) /\ [][C21_InFlight]_vars

\* the send_message of socket 1 arrived while socket 1 alone was in the room
\* of chat 1; during the send socket 1 disconnected and socket 2 joined: the
\* message is stored and goes to socket 2 alone
C21_Witness ==
  /\ resp.call.op = "socketSend" /\ resp.res = "ok"
  /\ resp.call.conn = 1 /\ resp.call.chat = 1
  /\ InRoom(ChatRoom(1)) # { c \in Conns : FlightLive[c] # 0 /\ ChatRoom(1) \in FlightRooms[c] }
  /\ live[1] = 0
  /\ resp.call.mid \in DOMAIN messages
  /\ Len(emitted) = 1
  /\ emitted[1].to = {2}

\* C22: a typing event is relayed as one user_typing, to the sockets of the
\* chat room that are not sockets of the typing user.
C22_TypingSkipsSender ==
  \A i \in DOMAIN emitted :
    emitted[i].ev = "user_typing" =>
      /\ Len(emitted) = 1
      /\ emitted[i].to =
           { c \in InRoom(emitted[i].room) : live[c] # emitted[i].body.sender }

\* the step announces to the other sockets of room r that socket c has
\* joined or left it
Announced(c, r) ==
  LET others == { d \in Conns : live'[d] # 0 /\ r \in rooms'[d] } \ {c}
  IN others # {} =>
       \E i \in DOMAIN emitted' :
         /\ emitted'[i].room = r
         /\ emitted'[i].body.sender = live[c]
         /\ emitted'[i].to = others

C23_Step ==
  \A c \in Conns :
    (live[c] # 0 /\ live'[c] = live[c]) =>
      /\ \A r \in rooms'[c] \ rooms[c] : r[1] \in {"chat", "forum"} => Announced(c, r)
      /\ \A r \in rooms[c] \ rooms'[c] : r[1] \in {"chat", "forum"} => Announced(c, r)

\* C23: when a connected socket enters or leaves a chat room or a forum room,
\* the other sockets of that room, and never the socket itself, are sent an
\* event that names its user.
C23_JoinLeaveAnnounced == [][C23_Step]_vars

C24_Step ==
  \A c \in Conns :
    (live[c] # 0 /\ live'[c] = 0 /\ resp'.res # "exit") =>
      \A r \in rooms[c] :
        LET remaining == { d \in Conns : live'[d] # 0 /\ r \in rooms'[d] }
        IN (r[1] = "chat" /\ remaining # {}) =>
             \E i \in DOMAIN emitted' :
               /\ emitted'[i].ev = "user_left_chat"
               /\ emitted'[i].room = r
               /\ emitted'[i].body.sender = live[c]
               /\ emitted'[i].to = remaining

\* C24: when a socket disconnects, the sockets that remain in each chat room
\* it was in just before are sent a user_left_chat naming its user.
C24_DisconnectAnnounced == [][C24_Step]_vars

\* a delete by the sender of the message has returned success
OwnDelete(call) ==
  /\ call.op = "delete"
  /\ call.mid \in DOMAIN messages
  /\ messages[call.mid].sender = call.user

C25_Flagged ==
  (OwnDelete(resp.call) /\ resp.res = "ok") =>
    /\ messages[resp.call.mid].isDeleted
    /\ messages[resp.call.mid].deletedAt >= resp.call.started
    /\ Len(emitted) = 1
    /\ emitted[1].room = ChatRoom(messages[resp.call.mid].chatId)
    /\ emitted[1].body.kind = "message_deleted"
    /\ emitted[1].body.mid = resp.call.mid
    /\ emitted[1].body.chat = messages[resp.call.mid].chatId
    /\ emitted[1].body.content = <<>>

\* C25: a delete by the sender flags the message as deleted, stamps it and
\* broadcasts to the chat room an event that carries the message id and the
\* chat id and no content; the content the message was sent with is no
\* longer stored.
C25_DeletedContentGone ==
  /\ C25_Flagged
  /\ (OwnDelete(resp.call) /\ resp.res = "ok") =>
       messages[resp.call.mid].content # SeedMessages[resp.call.mid].content

\* the receipts of user u on a message
Receipts(message, u) == { i \in DOMAIN message.readBy : message.readBy[i].user = u }

\* a markRead by a participant of the chat has returned success
C26_AtReturn ==
  (resp.call.op = "markRead" /\ resp.res = "ok") =>
    /\ \A m \in DOMAIN messages :
         /\ (messages[m].chatId = resp.call.chat /\ messages[m].sender # resp.call.user)
              => Cardinality(Receipts(messages[m], resp.call.user)) = 1
         /\ messages[m].sender = resp.call.user
              => Receipts(messages[m], resp.call.user) = {}
    /\ \A i \in DOMAIN chats[resp.call.chat].participants :
         chats[resp.call.chat].participants[i].user = resp.call.user =>
           /\ chats[resp.call.chat].participants[i].lastSeenAt = resp.call.stamp
           /\ resp.call.stamp >= resp.call.started
    /\ getUnreadCount(resp.call.chat, resp.call.user) = 0

\* a step of a markRead changes no message of another chat, and a markRead
\* by a user who is not a participant of the chat changes nothing stored
C26_Frame ==
  \A p \in Procs :
    (proc[p].op = "markRead" /\ proc'[p] # proc[p]) =>
      /\ \A m \in DOMAIN messages :
           messages[m].chatId # proc[p].chat => messages'[m] = messages[m]
      /\ DOMAIN messages' = DOMAIN messages
      /\ (~ChatExists(proc[p].chat) \/ ~isParticipant(chats[proc[p].chat], proc[p].user))
           => (dbVars' = dbVars /\ resp'.res \in {"not_found", "forbidden"})

\* C26: when a markRead of chat C by a participant U returns, no message
\* being sent meanwhile, every message of C by another user holds exactly one
\* receipt of U, no message by U holds one, U's lastSeenAt in C is the time
\* the request read, and U's unread count of C is 0; the request changes no
\* message of another chat, and a request by a non-participant changes
\* nothing.
C26_MarkReadEffect == [](C26_AtReturn) /\ [][C26_Frame]_vars

\* user 2 has marked chat 1 read for the second time, after the clock has
\* advanced: message 1, by user 1, holds one receipt of user 2, and message 2
\* of chat 2 holds none
C26_Witness ==
  /\ resp.call.op = "markRead" /\ resp.res = "ok"
  /\ resp.call.user = 2 /\ resp.call.chat = 1
  /\ resp.call.started = 1
  /\ Len(messages[1].readBy) = 1
  /\ messages[1].readBy[1].user = 2
  /\ messages[1].readBy[1].readAt = 0
  /\ messages[2].readBy = <<>>

C27_Step ==
  /\ DOMAIN notifications' = DOMAIN notifications
  /\ \A i \in DOMAIN notifications :
       notifications'[i] # notifications[i] =>
         /\ resp'.call.user = notifications[i].recipient
         /\ resp'.call.op \in {"noteRead", "socketNoteRead", "noteReadAll", "noteDelete"}
         /\ \/ notifications'[i] = Gone
            \/ /\ notifications'[i].isRead
               /\ notifications'[i].recipient = notifications[i].recipient
               /\ notifications'[i].sender = notifications[i].sender
               /\ notifications'[i].type = notifications[i].type
               /\ notifications'[i].ref = notifications[i].ref
  /\ \A i \in DOMAIN notifications :
       (notifications[i].isRead /\ notifications'[i] # Gone) => notifications'[i].isRead
  /\ \A i \in DOMAIN notifications :
       (/\ resp'.call.op \in {"noteRead", "socketNoteRead", "noteDelete"}
        /\ resp'.call.mid = i
        /\ resp'.call.user # notifications[i].recipient)
         => notifications' = notifications

C28_ParticipantsOnly ==
  \A i \in DOMAIN emitted :
    (/\ emitted[i].ev \in {"new_message", "user_typing", "user_joined_chat"}
     /\ emitted[i].room[1] = "chat"
     /\ ChatExists(emitted[i].room[2])) =>
      \A c \in emitted[i].to : isParticipant(chats[emitted[i].room[2]], live[c])

\* C29: a notification-creating call with existing recipients that the
\* database does not fail passes validation, whether or not it supplies a
\* sender, and stores an unread notification of its type for each recipient.
C29_SenderRulePasses ==
  (resp.call.op \in {"notify", "notifyBulk"} /\ resp.res # "error") =>
    /\ resp.res = "ok"
    /\ \A i \in DOMAIN resp.call.peers :
         \E j \in DOMAIN notifications :
           /\ notifications[j].recipient = resp.call.peers[i]
           /\ notifications[j].type = resp.call.type
           /\ ~notifications[j].isRead

====
